---- MODULE Spec2Model ----
(***************************************************************************)
(* A model of pytinybeans.PyTinybeans (src/pytinybeans/pytinybeans.py):    *)
(* one client object, driven by a single-threaded caller.  The state is    *)
(* the client's fields (_access_token, user), the locals of the operation  *)
(* in progress, and `trace', the requests the current operation has sent   *)
(* to the REST API and to the object store, in the order it sent them.     *)
(* The server, the object store, the identity service and the file system  *)
(* are the environment: every answer they can give is a choice by \E.      *)
(*                                                                         *)
(* Python values: None-able values are sequences of length <= 1 (<<>> is   *)
(* None or "key absent", <<v>> is v), except _access_token, where None is  *)
(* the string None and a JSON null token is stored as None.                *)
(***************************************************************************)
EXTENDS Integers, Sequences, FiniteSets, TLC

VARIABLES
    access_token,        \* self._access_token
    user,                \* self.user: <<>> while the attribute is unset
    uuid_count,          \* number of uuid.uuid4() values drawn so far
    pc,                  \* "idle", the place the operation is at, or "done"
    op,                  \* the operation called, "none" while idle
    outcome,             \* "none" | "running" | "returned" | "raised"
    error,               \* the exception that ended the operation, or "none"
    trace,               \* requests sent by the operation called last
    response,            \* the local `response' of login / get_entries
    child,               \* get_entries: the child, <<>> outside the call
    entries,             \* get_entries: the accumulator
    last,                \* get_entries: the cursor, <<>> before the call
    last_arg,            \* get_entries: the `last' the caller passed
    clock,               \* get_entries: the epoch milliseconds at the call
    get_deleted_entries, \* get_entries: the flag
    pages,               \* get_entries: every response received, in order
    result,              \* get_entries: the returned list
    mediaItems,          \* upload_medias: its argument
    index,               \* upload_medias: items registered so far
    mediaItem,           \* upload_media: its mediaItem argument, <<>> outside it
    s3Client,            \* upload_media: its s3Client argument, <<>> for None
    destinationFileName, \* upload_media: the object key, <<>> outside it
    entry                \* delete: its argument, <<>> outside it

vars == <<access_token, user, uuid_count, pc, op, outcome, error, trace,
          response, child, entries, last, get_deleted_entries, pages, result,
          mediaItems, index, mediaItem, s3Client, destinationFileName,
          last_arg, clock, entry>>

-----------------------------------------------------------------------------
(* Bounds of the model. *)

\* page requests one get_entries call may make before the model stops it
MaxPages == 3
\* longest list handed to upload_medias
MaxItems == 3
\* uuid4 values the model draws in all
MaxUuid == 3

-----------------------------------------------------------------------------
(* Values. *)

None == "None"
IOS_CLIENT_ID == "13bcd503-2137-9085-a437-d9f2ac9281a1"
CLIENT_ID == IOS_CLIENT_ID
API_BASE_URL == "https://tinybeans.com/api/1/"
BUCKET == "tinybeans-remote-upload-prod"

\* Python truthiness of self._access_token
Truthy(v) == v /= None /\ v /= ""

\* the last element of s.split(".") for a path s given as its characters
RECURSIVE LastSegment(_)
LastSegment(s) ==
    IF \E i \in 1..Len(s) : s[i] = "."
    THEN LastSegment(Tail(s))
    ELSE s

\* urljoin(self.API_BASE_URL, path) for a relative path given as segments
urljoin(base, path) == <<base>> \o path

-----------------------------------------------------------------------------
(* The environment's answers. *)

TokenValues == {"tokA", "tokB"}

\* a user record of the server: the keys it carries
UserKeys == {"id", "emailAddress", "firstName", "lastName", "username"}
CompleteUser == [id |-> "u1", keys |-> UserKeys]
IncompleteUser == [id |-> "u1", keys |-> UserKeys \ {"username"}]

\* the journals and children of the server
Journal1 == [id |-> "j1", title |-> "one"]
Journal2 == [id |-> "j2", title |-> "two"]
Child1 == [id |-> "c1", journal |-> Journal1]
Child2 == [id |-> "c2", journal |-> Journal2]
ChildPool == {Child1, Child2}

\* the media items a caller uploads; a file is its path's characters
Item1 == [day |-> 1, month |-> 2, year |-> 2020,
          file |-> <<"p", ".", "j">>, children |-> <<Child1>>]
Item2 == [day |-> 3, month |-> 4, year |-> 2021,
          file |-> <<"v", ".", "t", ".", "m">>, children |-> <<Child1, Child2>>]
Item3 == [day |-> 5, month |-> 6, year |-> 2022,
          file |-> <<"n">>, children |-> <<>>]
ItemPool == {Item1, Item2, Item3}
ItemLists == UNION {[1..n -> ItemPool] : n \in 0..MaxItems}

\* what entering s3_client() can end with (lines 131-138)
S3ClientOutcomes == {"ok", "KeyError: IDENTITY_ID", "ClientError"}

\* the `followings' lists the server may send (each following reduced to
\* its journal's children, the part the client's `children' reads)
FollowingsLists == {<<>>, <<<<Child1>>>>, <<<<Child1>>, <<Child2>>>>}

\* entry records the server may send, newest first by timestamp
RawEntry1 == [id |-> "e1", deleted |-> FALSE, timestamp |-> 1,
              type |-> "PHOTO", blobs |-> <<"p1">>]
RawEntry2 == [id |-> "e2", deleted |-> TRUE, timestamp |-> 2,
              type |-> "TEXT", blobs |-> <<>>]
RawEntries == {RawEntry1, RawEntry2}

\* the entry lists of one page
PageLists == {<<>>, <<RawEntry1>>, <<RawEntry2>>, <<RawEntry2, RawEntry1>>}

\* the remaining-counts the server reports (fetchSize is 200)
RemainingCounts == {0, 200, 400}

\* a requests.Response: the status, whether the body parses as JSON, and
\* the keys of the JSON object the operations read (<<>>: key absent)
Body(status, is_json, accessToken, usr, ents, remaining, followings) ==
    [status |-> status, is_json |-> is_json, accessToken |-> accessToken,
     user |-> usr, entries |-> ents, numEntriesRemaining |-> remaining,
     followings |-> followings]

NoResponse == Body(0, FALSE, <<>>, <<>>, <<>>, <<>>, <<>>)
NotJson(status) == Body(status, FALSE, <<>>, <<>>, <<>>, <<>>, <<>>)

\* answers to POST authenticate
LoginResponses ==
    {Body(st, TRUE, tok, usr, <<>>, <<>>, <<>>) :
        st \in {200, 401},
        tok \in {<<>>, <<None>>} \cup {<<t>> : t \in TokenValues},
        usr \in {<<>>, <<IncompleteUser>>, <<CompleteUser>>}}
    \cup {NotJson(st) : st \in {200, 401}}

\* answers to GET journals/{id}/entries
EntriesResponses ==
    {Body(200, TRUE, <<>>, <<>>, ents, rem, <<>>) :
        ents \in {<<>>} \cup {<<p>> : p \in PageLists},
        rem \in {<<>>} \cup {<<n>> : n \in RemainingCounts}}
    \cup {NotJson(200)}

\* answers to DELETE and to the registration POST: the code reads neither
DeleteResponses == {NotJson(st) : st \in {200, 404}}
RegistrationResponses == {NotJson(st) : st \in {200, 500}}

\* answers to GET followings
FollowingsResponses ==
    {Body(200, TRUE, <<>>, <<>>, <<>>, <<>>, f) :
        f \in {<<>>} \cup {<<l>> : l \in FollowingsLists}}
    \cup {NotJson(200)}

-----------------------------------------------------------------------------
(* The data classes. *)

\* TinybeansUser.__init__: KeyError unless every key is present
TinybeansUserOk(data) == UserKeys \subseteq data.keys
TinybeansUser(data) == [id |-> data.id]

\* TinybeanEntry.__init__ on a well-formed entry record
TinybeanEntry(data) ==
    [id |-> data.id, deleted |-> data.deleted, type |-> data.type,
     blobs |-> data.blobs]

MapEntries(list) == [i \in 1..Len(list) |-> TinybeanEntry(list[i])]

-----------------------------------------------------------------------------
(* PyTinybeans. *)

NoLocals ==
    /\ response = NoResponse
    /\ child = <<>>
    /\ entries = <<>>
    /\ last = <<>>
    /\ get_deleted_entries = FALSE
    /\ pages = <<>>
    /\ result = <<>>
    /\ mediaItems = <<>>
    /\ index = 0
    /\ mediaItem = <<>>
    /\ s3Client = <<>>
    /\ destinationFileName = <<>>
    /\ last_arg = <<>>
    /\ clock = <<>>
    /\ entry = <<>>

\* __init__, lines 148-150; no operation has been called
Init ==
    /\ access_token = None
    /\ user = <<>>
    /\ uuid_count = 0
    /\ pc = "idle"
    /\ op = "none"
    /\ outcome = "none"
    /\ error = "none"
    /\ trace = <<>>
    /\ NoLocals

entriesLocals == <<child, entries, last, get_deleted_entries, pages, result,
                   last_arg, clock>>
uploadLocals == <<mediaItems, index, mediaItem, s3Client, destinationFileName>>
fields == <<access_token, user, uuid_count>>

\* a bug: the header is attached whether or not a token is held
AuthHeadersAlways(token) == <<token>>

\* the authorization header _api attaches for a token, lines 157-167
AuthHeaders(token) == IF Truthy(token) THEN <<token>> ELSE <<>>

\* _api: the request it hands to session.request
_api(path, params, json, method) ==
    [kind |-> "api", method |-> method, url |-> urljoin(API_BASE_URL, path),
     params |-> params, json |-> json, headers |-> AuthHeaders(access_token)]

\* a bug: the client counts as logged in only once the user is decoded
logged_in_with_user == Truthy(access_token) /\ user /= <<>>

\* the logged_in property, lines 171-176
logged_in == Truthy(access_token)

\* the operation goes on at place p
GoesOn(p) ==
    /\ pc' = p
    /\ outcome' = "running"
    /\ error' = "none"

\* the operation ends: it returned (err = "none") or raised err
Ends(err) ==
    /\ pc' = "done"
    /\ outcome' = IF err = "none" THEN "returned" ELSE "raised"
    /\ error' = err

\* the caller takes the result or the exception and is free to call again;
\* the locals of the ended operation are gone
resume ==
    /\ pc = "done"
    /\ pc' = "idle"
    /\ op' = "none"
    /\ outcome' = "none"
    /\ error' = "none"
    /\ trace' = <<>>
    /\ response' = NoResponse
    /\ child' = <<>>
    /\ entries' = <<>>
    /\ last' = <<>>
    /\ get_deleted_entries' = FALSE
    /\ pages' = <<>>
    /\ result' = <<>>
    /\ mediaItems' = <<>>
    /\ index' = 0
    /\ mediaItem' = <<>>
    /\ s3Client' = <<>>
    /\ destinationFileName' = <<>>
    /\ last_arg' = <<>>
    /\ clock' = <<>>
    /\ entry' = <<>>
    /\ UNCHANGED fields

-----------------------------------------------------------------------------
(* login, children, delete. *)

\* login, lines 192-193: what the response makes of _access_token and user
LoginStore(resp) ==
    IF ~resp.is_json
    THEN [token |-> access_token, user |-> user, error |-> "JSONDecodeError"]
    ELSE IF resp.accessToken = <<>>
    THEN [token |-> access_token, user |-> user, error |-> "KeyError"]
    ELSE IF resp.user = <<>> \/ ~TinybeansUserOk(resp.user[1])
    THEN [token |-> resp.accessToken[1], user |-> user, error |-> "KeyError"]
    ELSE [token |-> resp.accessToken[1],
          user |-> <<TinybeansUser(resp.user[1])>>, error |-> "none"]

Usernames == {"alice"}
Passwords == {"pw1", "pw2"}

\* lines 178-191: up to the authenticate request
login(username, password) ==
    /\ pc = "idle"
    /\ UNCHANGED entry
    /\ op' = "login"
    /\ UNCHANGED <<fields, response, entriesLocals, uploadLocals>>
    /\ IF logged_in
       THEN /\ trace' = <<>>
            /\ Ends("none")
       ELSE /\ trace' = <<_api(<<"authenticate">>, <<>>,
                               <<[username |-> username, password |-> password,
                                  clientId |-> IOS_CLIENT_ID]>>, "POST")>>
            /\ GoesOn("login")

\* lines 192-193: the request raises, or its response is read
login_response ==
    /\ pc = "login"
    /\ UNCHANGED entry
    /\ UNCHANGED <<uuid_count, op, trace, entriesLocals, uploadLocals>>
    /\ \/ /\ Ends("ConnectionError")
          /\ UNCHANGED <<access_token, user, response>>
       \/ \E resp \in LoginResponses :
             /\ response' = resp
             /\ access_token' = LoginStore(resp).token
             /\ user' = LoginStore(resp).user
             /\ Ends(LoginStore(resp).error)

\* the `children' property, which runs get_followings to its end
children ==
    /\ pc = "idle"
    /\ UNCHANGED entry
    /\ op' = "children"
    /\ UNCHANGED <<fields, entriesLocals, uploadLocals>>
    /\ trace' = <<_api(<<"followings">>, <<[clientId |-> CLIENT_ID]>>,
                       <<>>, "GET")>>
    /\ \/ /\ response' = NoResponse
          /\ Ends("ConnectionError")
       \/ \E resp \in FollowingsResponses :
             /\ response' = resp
             /\ Ends(IF ~resp.is_json THEN "JSONDecodeError"
                     ELSE IF resp.followings = <<>> THEN "KeyError"
                     ELSE "none")

\* lines 212-213
DeleteRequest(e) ==
    _api(<<"journals", "1572712", "entries", e.id>>, <<>>, <<>>, "DELETE")

\* delete: line 211 reads entry.blobs['p'] before the request is sent; the
\* response of the request is not looked at
delete(e) ==
    /\ pc = "idle"
    /\ op' = "delete"
    /\ entry' = <<e>>
    /\ UNCHANGED <<fields, entriesLocals, uploadLocals>>
    /\ IF e.blobs = <<>>
       THEN /\ trace' = <<>>
            /\ UNCHANGED response
            /\ Ends("KeyError")
       ELSE /\ trace' = <<DeleteRequest(e)>>
            /\ \/ \E resp \in DeleteResponses :
                     response' = resp /\ Ends("none")
               \/ UNCHANGED response /\ Ends("ConnectionError")

-----------------------------------------------------------------------------
(* upload_media, upload_medias. *)

\* entering s3_client(), as the object store sees it
S3ClientEvent(acq) == [kind |-> "s3_client", outcome |-> acq]

\* lines 216-219: f'{id}.{suffix}' for the n-th uuid4
DestinationFileName(n, item) == [id |-> n, suffix |-> LastSegment(item.file)]

\* lines 230-231 and 238-239: the upload_file call and how it ended
S3Upload(item, key, ok) ==
    [kind |-> "s3_upload", Filename |-> item.file, Bucket |-> BUCKET,
     Key |-> key, ok |-> ok]

\* a bug: the handler raises the upload's exception again
UploadErrorReraised(ok) == IF ok THEN "none" ELSE "S3UploadFailedError"

\* lines 229-234 and 237-242: the exception that leaves the try statement
\* when upload_file ended well (ok) or raised: the handler only logs
UploadError(ok) == "none"

\* a bug: entering s3_client() is inside the try, its exception only logged
AcquireErrorSwallowed(acq) == "none"

\* lines 236 and 264: the exception that leaves `with s3_client()' when
\* entering it ended with acq; neither statement is inside a try
AcquireError(acq) == IF acq = "ok" THEN "none" ELSE acq

\* a bug: the loop walks the list from its end
ItemAtReversed(items, i) == items[Len(items) - i]

\* line 265: the item of the loop's step i (i counts from 0)
ItemAt(items, i) == items[i + 1]

ChildIds(cs) == [i \in 1..Len(cs) |-> cs[i].id]

\* a bug: the body names a key made from a uuid drawn anew
RegistrationRequestOtherKey(item, key) ==
    _api(<<"journals", "1572712", "entries">>, <<>>,
         <<[day |-> item.day, month |-> item.month, year |-> item.year,
            children |-> ChildIds(item.children), caption |-> "",
            remoteFileName |-> [id |-> key.id + 1, suffix |-> key.suffix]]>>,
         "POST")

\* lines 248-258
RegistrationRequest(item, key) ==
    _api(<<"journals", "1572712", "entries">>, <<>>,
         <<[day |-> item.day, month |-> item.month, year |-> item.year,
            children |-> ChildIds(item.children), caption |-> "",
            remoteFileName |-> key]>>, "POST")

\* lines 216-222: the key is made and the file is stat'ed
UploadMediaBegins(item) ==
    /\ mediaItem' = <<item>>
    /\ response' = NoResponse
    /\ uuid_count' = uuid_count + 1
    /\ destinationFileName' = <<DestinationFileName(uuid_count + 1, item)>>
    /\ \E exists \in BOOLEAN :
          IF exists THEN GoesOn("upload_media_upload")
                    ELSE Ends("FileNotFoundError")

\* upload_media called by the caller, with or without a client
upload_media(item, client) ==
    /\ pc = "idle"
    /\ UNCHANGED entry
    /\ uuid_count < MaxUuid
    /\ op' = "upload_media"
    /\ s3Client' = client
    /\ trace' = <<>>
    /\ UploadMediaBegins(item)
    /\ UNCHANGED <<access_token, user, entriesLocals, mediaItems, index>>

\* the upload, then lines 243-258 up to the registration request
UploadAndRegister(sent, ok) ==
    LET item == mediaItem[1]
        key == destinationFileName[1]
    IN  IF UploadError(ok) /= "none"
        THEN /\ trace' = sent \o <<S3Upload(item, key, ok)>>
             /\ Ends(UploadError(ok))
        ELSE /\ trace' = sent \o <<S3Upload(item, key, ok),
                                   RegistrationRequest(item, key)>>
             /\ GoesOn("upload_media_post")

\* lines 228-258
upload_media_upload ==
    /\ pc = "upload_media_upload"
    /\ UNCHANGED entry
    /\ UNCHANGED <<fields, op, response, entriesLocals, uploadLocals>>
    /\ IF s3Client /= <<>>
       THEN \E ok \in BOOLEAN : UploadAndRegister(trace, ok)
       ELSE \E acq \in S3ClientOutcomes :
               IF AcquireError(acq) /= "none"
               THEN /\ trace' = Append(trace, S3ClientEvent(acq))
                    /\ Ends(AcquireError(acq))
               ELSE \E ok \in BOOLEAN :
                       UploadAndRegister(Append(trace, S3ClientEvent(acq)), ok)

\* a bug: the exception of the registration request is caught and dropped
PostErrorSwallowed(raised) == "none"

\* lines 257-258 and 265-266: the exception that leaves upload_media, and
\* with it the loop of upload_medias, when the registration request raised;
\* neither the request nor the loop body is inside a try
PostError(raised) == IF raised THEN "ConnectionError" ELSE "none"

\* line 257: the registration request raises or is answered; upload_media
\* returns to the caller or to the loop of upload_medias
upload_media_post ==
    /\ pc = "upload_media_post"
    /\ UNCHANGED entry
    /\ UNCHANGED <<fields, op, trace, entriesLocals, mediaItems,
                   mediaItem, s3Client, destinationFileName>>
    /\ \E raised \in BOOLEAN :
          /\ IF raised THEN UNCHANGED response
                       ELSE \E resp \in RegistrationResponses : response' = resp
          /\ IF PostError(raised) /= "none"
             THEN Ends(PostError(raised)) /\ UNCHANGED index
             ELSE IF op = "upload_medias"
             THEN index' = index + 1 /\ GoesOn("upload_medias")
             ELSE UNCHANGED index /\ Ends("none")

\* lines 263-264: the credential scope is entered
upload_medias(items) ==
    /\ pc = "idle"
    /\ UNCHANGED entry
    /\ uuid_count + Len(items) <= MaxUuid
    /\ op' = "upload_medias"
    /\ mediaItems' = items
    /\ UNCHANGED <<fields, response, entriesLocals, index, mediaItem,
                   destinationFileName>>
    /\ \E acq \in S3ClientOutcomes :
          /\ trace' = <<S3ClientEvent(acq)>>
          /\ IF AcquireError(acq) = "none"
             THEN s3Client' = <<"s3">> /\ GoesOn("upload_medias")
             ELSE s3Client' = <<>> /\ Ends(AcquireError(acq))

\* lines 265-266: the next item's upload_media begins, or the loop is over
upload_medias_loop ==
    /\ pc = "upload_medias"
    /\ UNCHANGED entry
    /\ UNCHANGED <<access_token, user, op, trace, entriesLocals,
                   mediaItems, index, s3Client>>
    /\ IF index < Len(mediaItems)
       THEN UploadMediaBegins(ItemAt(mediaItems, index))
       ELSE /\ Ends("none")
            /\ UNCHANGED <<uuid_count, response, mediaItem,
                           destinationFileName>>

-----------------------------------------------------------------------------
(* get_entries. *)

\* the caller's cursors, and the values the clock of line 272 may give
LastArgs == {<<>>, <<3>>}
NowValues == {7200500}

\* the seconds the host's local time is ahead of UTC
UtcOffsets == {0, 3600}

\* line 272: time.mktime reads the fields of utcnow() as local time and
\* gives whole seconds; int(... * 1000) makes milliseconds of them
MktimeOfUtcnowMillis(now, utcoffset) == ((now \div 1000) - utcoffset) * 1000

\* lines 271-279
FirstCursor(lastArg, now, utcoffset) ==
    IF lastArg = <<>> THEN MktimeOfUtcnowMillis(now, utcoffset)
    ELSE lastArg[1]

\* lines 280-284 and 292-296
EntriesRequest(c, cursor) ==
    _api(<<"journals", c.journal.id, "entries">>,
         <<[clientId |-> CLIENT_ID, fetchSize |-> 200, last |-> cursor]>>,
         <<>>, "GET")

\* a bug: a page's entries are put in front of the accumulator
AppendEntriesInFront(acc, list) == MapEntries(list) \o acc

\* lines 285-286 and 299-300
AppendEntries(acc, list) == acc \o MapEntries(list)

\* a bug: the loop goes on while the remaining-count is not negative
LoopConditionNotNegative(resp) == resp.numEntriesRemaining[1] >= 0

\* line 289, for a response that carries numEntriesRemaining
LoopCondition(resp) == resp.numEntriesRemaining[1] > 0

\* line 302
KeepEntry(e, flag) == ~e.deleted /\ ~flag
FilterEntries(acc, flag) == SelectSeq(acc, LAMBDA e : KeepEntry(e, flag))

\* lines 268-284: up to the first page request
get_entries(c, lastArg, flag) ==
    /\ pc = "idle"
    /\ UNCHANGED entry
    /\ op' = "get_entries"
    /\ UNCHANGED <<fields, response, entries, pages, result, uploadLocals>>
    /\ child' = <<c>>
    /\ get_deleted_entries' = flag
    /\ last_arg' = lastArg
    /\ \E now \in NowValues, utcoffset \in UtcOffsets :
          /\ clock' = <<now>>
          /\ last' = <<FirstCursor(lastArg, now, utcoffset)>>
          /\ trace' = <<EntriesRequest(c, FirstCursor(lastArg, now, utcoffset))>>
    /\ GoesOn("get_entries_first")

\* lines 285-288: the first request raises, or its response is read
get_entries_first_page ==
    /\ pc = "get_entries_first"
    /\ UNCHANGED <<entry, last_arg, clock>>
    /\ UNCHANGED <<fields, op, trace, child, last, get_deleted_entries,
                   result, uploadLocals>>
    /\ \/ /\ Ends("ConnectionError")
          /\ UNCHANGED <<response, entries, pages>>
       \/ \E resp \in EntriesResponses :
             /\ response' = resp
             /\ pages' = <<resp>>
             /\ IF ~resp.is_json
                THEN UNCHANGED entries /\ Ends("JSONDecodeError")
                ELSE IF resp.entries = <<>>
                THEN UNCHANGED entries /\ Ends("KeyError: entries")
                ELSE /\ entries' = AppendEntries(entries, resp.entries[1])
                     /\ IF resp.numEntriesRemaining = <<>>
                        THEN Ends("KeyError: numEntriesRemaining")
                        ELSE GoesOn("get_entries_while")

\* lines 289-296 and 302: the while condition is evaluated; the call
\* returns, or the next cursor is read and the next page is requested
get_entries_while ==
    /\ pc = "get_entries_while"
    /\ UNCHANGED <<entry, last_arg, clock>>
    /\ UNCHANGED <<fields, op, response, child, entries, get_deleted_entries,
                   pages, uploadLocals>>
    /\ IF response.numEntriesRemaining = <<>>
       THEN /\ Ends("KeyError: numEntriesRemaining")
            /\ UNCHANGED <<trace, last, result>>
       ELSE IF ~LoopCondition(response)
       THEN /\ result' = FilterEntries(entries, get_deleted_entries)
            /\ Ends("none")
            /\ UNCHANGED <<trace, last>>
       ELSE /\ Len(pages) < MaxPages
            /\ UNCHANGED result
            /\ IF response.entries = <<>>
               THEN /\ Ends("KeyError: entries")
                    /\ UNCHANGED <<trace, last>>
               ELSE IF response.entries[1] = <<>>
               THEN /\ Ends("IndexError")
                    /\ UNCHANGED <<trace, last>>
               ELSE /\ last' = <<response.entries[1][1].timestamp>>
                    /\ trace' = Append(trace,
                          EntriesRequest(child[1],
                                         response.entries[1][1].timestamp))
                    /\ GoesOn("get_entries_next")

\* lines 298-300: the request raises, or its response is read
get_entries_next_page ==
    /\ pc = "get_entries_next"
    /\ UNCHANGED <<entry, last_arg, clock>>
    /\ UNCHANGED <<fields, op, trace, child, last, get_deleted_entries,
                   result, uploadLocals>>
    /\ \/ /\ Ends("ConnectionError")
          /\ UNCHANGED <<response, entries, pages>>
       \/ \E resp \in EntriesResponses :
             /\ response' = resp
             /\ pages' = Append(pages, resp)
             /\ IF ~resp.is_json
                THEN UNCHANGED entries /\ Ends("JSONDecodeError")
                ELSE /\ entries' = IF resp.entries /= <<>>
                                   THEN AppendEntries(entries, resp.entries[1])
                                   ELSE entries
                     /\ GoesOn("get_entries_while")

-----------------------------------------------------------------------------

Next ==
    \/ \E u \in Usernames, p \in Passwords : login(u, p)
    \/ login_response
    \/ children
    \/ \E d \in RawEntries : delete(TinybeanEntry(d))
    \/ \E item \in ItemPool, client \in {<<>>, <<"s3">>} : upload_media(item, client)
    \/ upload_media_upload
    \/ upload_media_post
    \/ \E items \in ItemLists : upload_medias(items)
    \/ upload_medias_loop
    \/ \E c \in {Child1}, l \in LastArgs, f \in BOOLEAN : get_entries(c, l, f)
    \/ get_entries_first_page
    \/ get_entries_while
    \/ get_entries_next_page
    \/ resume

Spec == Init /\ [][Next]_vars

-----------------------------------------------------------------------------
(* Vocabulary of the properties. *)

Finished(o) == pc = "done" /\ op = o
Returned(o) == Finished(o) /\ outcome = "returned"
Held(token) == token /= None /\ token /= ""

\* the requests of the last step: those of trace' that trace did not hold
NewRequests == (Len(trace) + 1)..Len(trace')

IsApi(r, method) == r.kind = "api" /\ r.method = method
Count(seq, Test(_)) == Cardinality({j \in 1..Len(seq) : Test(seq[j])})

\* what the pages fetched so far hold, in fetch order
HasEntries(page) == page.is_json /\ page.entries /= <<>>
RECURSIVE PagesConcatenated(_)
PagesConcatenated(ps) ==
    IF ps = <<>> THEN <<>>
    ELSE PagesConcatenated(SubSeq(ps, 1, Len(ps) - 1)) \o
         (IF HasEntries(ps[Len(ps)])
          THEN [i \in 1..Len(ps[Len(ps)].entries[1]) |->
                   [id |-> ps[Len(ps)].entries[1][i].id,
                    deleted |-> ps[Len(ps)].entries[1][i].deleted,
                    type |-> ps[Len(ps)].entries[1][i].type,
                    blobs |-> ps[Len(ps)].entries[1][i].blobs]]
          ELSE <<>>)

-----------------------------------------------------------------------------
(* C1 *)

\* C1: get_entries returns exactly the accumulated entries e with
\* (not e.deleted) or get_deleted_entries, in the accumulator's order.
\* The code's line 302 keeps e only if (not e.deleted) and the flag is
\* false, so with the flag set nothing is returned.
C1_ReturnsUndeletedOrRequested ==
    Returned("get_entries") =>
        result = SelectSeq(entries,
                           LAMBDA e : ~e.deleted \/ get_deleted_entries)

-----------------------------------------------------------------------------
(* C2 *)

\* C2: throughout get_entries, and so when pagination completes, the
\* accumulator is the concatenation of the entry lists of the pages fetched,
\* in fetch order, each page in the order the server sent it.
C2_AccumulatorIsConcatenation ==
    op = "get_entries" => entries = PagesConcatenated(pages)

\* pagination completed over three pages, the first of two entries
C2_Witness ==
    /\ Returned("get_entries")
    /\ Len(pages) = 3
    /\ pages[1].entries = <<<<RawEntry2, RawEntry1>>>>
    /\ pages[2].entries = <<<<RawEntry1>>>>
    /\ pages[3].entries = <<<<RawEntry2>>>>
    /\ Len(entries) = 4

-----------------------------------------------------------------------------
(* C3 *)

Remaining(i) == pages[i].numEntriesRemaining[1]

\* every response so far parsed, carried at least one entry and a
\* remaining-count, and the counts strictly decrease
StrictlyDecreasingServer ==
    /\ \A i \in 1..Len(pages) :
          /\ HasEntries(pages[i])
          /\ pages[i].entries[1] /= <<>>
          /\ pages[i].numEntriesRemaining /= <<>>
    /\ \A i \in 1..(Len(pages) - 1) : Remaining(i) > Remaining(i + 1)

\* C3: against a server whose remaining-counts strictly decrease and reach
\* zero at the k-th response, get_entries sends exactly k page requests: no
\* request follows the response with count zero, and the call, once every
\* request is answered, has returned with the k-th count zero.
C3_FetchesUntilZero ==
    (op = "get_entries" /\ StrictlyDecreasingServer) =>
        /\ \A k \in 1..Len(pages) :
              Remaining(k) = 0 => (k = Len(pages) /\ Len(trace) = k)
        /\ (pc = "done" /\ Len(trace) = Len(pages)) =>
              /\ outcome = "returned"
              /\ Remaining(Len(pages)) = 0

\* the counts 400, 200, 0: three fetches and the call returned
C3_Witness ==
    /\ Returned("get_entries")
    /\ StrictlyDecreasingServer
    /\ Len(pages) = 3
    /\ Remaining(1) = 400 /\ Remaining(2) = 200 /\ Remaining(3) = 0
    /\ Len(trace) = 3

-----------------------------------------------------------------------------
(* C4 *)

IsUpload(r) == r.kind = "s3_upload"
IsRegistration(r) == IsApi(r, "POST")

-----------------------------------------------------------------------------
(* C5 *)

\* the j-th request of a batch is what the j-th place asks for: the scope,
\* then for each item in input order its upload and its registration
BatchRequestInPlace(j) ==
    IF j = 1 THEN trace[j].kind = "s3_client"
    ELSE LET item == mediaItems[j \div 2]
         IN  IF j % 2 = 0
             THEN /\ IsUpload(trace[j])
                  /\ trace[j].Filename = item.file
             ELSE /\ IsRegistration(trace[j])
                  /\ trace[j].json[1].day = item.day
                  /\ trace[j].json[1].month = item.month
                  /\ trace[j].json[1].year = item.year
                  /\ trace[j].json[1].remoteFileName = trace[j - 1].Key

BatchComplete ==
    /\ Len(trace) = 1 + 2 * Len(mediaItems)
    /\ \A j \in 1..Len(trace) : BatchRequestInPlace(j)

-----------------------------------------------------------------------------
(* C6 *)

\* C6: a login call made while a token is held sends no request, returns,
\* and leaves the token and the user as they are.
C6_LoginWithTokenIsNoOp ==
    [][(pc = "idle" /\ op' = "login" /\ Held(access_token)) =>
          /\ trace' = <<>>
          /\ pc' = "done"
          /\ outcome' = "returned"
          /\ access_token' = access_token
          /\ user' = user]_vars

\* a login call has returned without a request: the token was held
C6_Witness ==
    /\ Returned("login")
    /\ trace = <<>>
    /\ access_token \in TokenValues

-----------------------------------------------------------------------------
(* C7 *)

\* C7: a login call that got a non-2xx answer, or an answer without the
\* access token or without a complete user record, has raised, after
\* exactly one authenticate request.  The code never reads the status.
C7_FailedLoginRaises ==
    (/\ Finished("login")
     /\ response /= NoResponse
     /\ \/ response.status \notin 200..299
        \/ ~response.is_json
        \/ response.accessToken = <<>>
        \/ response.user = <<>>
        \/ response.user /= <<>> /\ ~(UserKeys \subseteq response.user[1].keys))
    => (outcome = "raised" /\ Len(trace) = 1)

-----------------------------------------------------------------------------
(* C8 *)

\* C8: a page without the entries data does not make get_entries raise,
\* and a call that returned accumulated the entries of all the other pages.
\* The code guards only line 298: lines 285 and 290 raise KeyError.
C8_MissingEntriesNotFatal ==
    op = "get_entries" =>
        /\ error /= "KeyError: entries"
        /\ outcome = "returned" => entries = PagesConcatenated(pages)

-----------------------------------------------------------------------------
(* C9 *)

FailedAcquisition(r) == r.kind = "s3_client" /\ r.outcome /= "ok"

\* C9: when entering the credential scope fails, in upload_medias or in an
\* upload_media called without a client, the call has raised that error and
\* the failed acquisition is all it did: no upload, no registration POST.
C9_NoUploadWithoutScope ==
    (\E j \in 1..Len(trace) : FailedAcquisition(trace[j])) =>
        /\ pc = "done"
        /\ outcome = "raised"
        /\ error = trace[Len(trace)].outcome
        /\ Count(trace, IsUpload) = 0
        /\ Count(trace, IsRegistration) = 0

\* a batch of two items ended at the failed acquisition
C9_Witness ==
    /\ Finished("upload_medias")
    /\ Len(mediaItems) = 2
    /\ FailedAcquisition(trace[1])

-----------------------------------------------------------------------------
(* C10 *)

\* C10: every API request carries the token held when it is sent as its
\* authorization header, and no such header when no token is held.
C10_AuthorizationIsHeldToken ==
    [][\A j \in NewRequests :
          trace'[j].kind = "api" =>
             trace'[j].headers =
                IF Held(access_token) THEN <<access_token>> ELSE <<>>]_vars

\* a second page request went out under the token tokB
C10_Witness ==
    /\ op = "get_entries"
    /\ Len(trace) = 2
    /\ trace[2].headers = <<"tokB">>
    /\ access_token = "tokB"

-----------------------------------------------------------------------------
(* C11 *)

\* what follows the last c of s, or all of s when it holds no c
RECURSIVE AfterLast(_, _)
AfterLast(s, c) ==
    IF \E i \in 1..Len(s) : s[i] = c THEN AfterLast(Tail(s), c) ELSE s

\* the extension of a file: what follows the last dot of its name, and
\* nothing when the name has no dot
Extension(file) ==
    LET name == AfterLast(file, "/")
    IN  IF \E i \in 1..Len(name) : name[i] = "." THEN AfterLast(name, ".")
        ELSE <<>>

UploadsOf(seq) == {j \in 1..Len(seq) : IsUpload(seq[j])}

\* every key was made from a uuid drawn so far, the key of the running
\* upload_media from the one drawn last, and no two uploads of a call or of
\* a batch share a key
KeysAreFresh ==
    /\ \A j \in UploadsOf(trace) : trace[j].Key.id \in 1..uuid_count
    /\ destinationFileName /= <<>> => destinationFileName[1].id = uuid_count
    /\ \A j, k \in UploadsOf(trace) : j /= k => trace[j].Key /= trace[k].Key

\* what follows the uuid in a key is the extension of the uploaded file
KeysCarryExtension ==
    \A j \in UploadsOf(trace) :
        trace[j].Key.suffix = Extension(trace[j].Filename)

\* C11: no two upload_media calls, alone or in a batch, use the same object
\* key, and each key is {uuid}.{extension of the file}.  Line 217 takes
\* what follows the last dot of the whole path, which for a file without a
\* dot is the path itself.
C11_FreshKeyWithExtension == KeysAreFresh /\ KeysCarryExtension

-----------------------------------------------------------------------------
(* C12 *)

\* lines 289-296 count nothing: the while statement reads the server's
\* remaining-count and that alone.  A loop-safety bound, whatever its value,
\* is exceeded by the runs that are one request longer; the longest runs
\* explored here hold MaxPages requests.
LoopSafetyBound == MaxPages - 1

\* C12: the page requests of one get_entries call are bounded by a
\* loop-safety bound, whatever the server answers.  The code sends one more
\* request after every response that carries entries and a positive
\* remaining-count, without end when the server never reports zero.
C12_PageRequestsBounded ==
    op = "get_entries" => Count(trace, LAMBDA r : IsApi(r, "GET")) <= LoopSafetyBound

-----------------------------------------------------------------------------
(* C13 *)

CursorOf(r) == r.params[1].last

\* epoch milliseconds, to the whole second time.mktime gives
WholeSeconds(millis) == (millis \div 1000) * 1000

\* the first page request carries the caller's cursor, or the time of the
\* call when the caller gave none
FirstCursorAsStated ==
    trace /= <<>> =>
        CursorOf(trace[1]) = IF last_arg = <<>> THEN WholeSeconds(clock[1])
                             ELSE last_arg[1]

\* the page appended last before the j-th request was sent
LastAppendedBefore(j) ==
    CHOOSE i \in 1..(j - 1) :
        /\ HasEntries(pages[i])
        /\ \A k \in (i + 1)..(j - 1) : ~HasEntries(pages[k])

\* every later request follows a response with a positive remaining-count
\* and carries the timestamp of the first entry of the page appended last
LaterCursorsAsStated ==
    \A j \in 2..Len(trace) :
        /\ pages[j - 1].numEntriesRemaining /= <<>>
        /\ pages[j - 1].numEntriesRemaining[1] > 0
        /\ \E i \in 1..(j - 1) : HasEntries(pages[i])
        /\ pages[LastAppendedBefore(j)].entries[1] /= <<>>
        /\ CursorOf(trace[j]) =
              pages[LastAppendedBefore(j)].entries[1][1].timestamp

\* C13: the first page request of get_entries uses the caller's cursor, or
\* the current time in milliseconds when none is given; every later request
\* uses the timestamp of the first entry of the page appended last and is
\* sent only after a response with a positive remaining-count.  Line 272
\* hands the fields of utcnow() to time.mktime, which reads them as local
\* time: off UTC the default cursor is not the current time.
C13_CursorChain ==
    op = "get_entries" => FirstCursorAsStated /\ LaterCursorsAsStated

-----------------------------------------------------------------------------
(* C14 *)

\* the item whose upload_media call sent the j-th request
ItemOfRequest(j) ==
    IF op = "upload_medias" THEN mediaItems[j \div 2] ELSE mediaItem[1]

\* C14: the registration POST of an upload_media call names the object key
\* of that call's upload and of no other upload, and its body carries the
\* item's day, month and year, the ids of the item's children in order and
\* an empty caption.
C14_RegistrationNamesOwnKey ==
    op \in {"upload_media", "upload_medias"} =>
        \A j \in 1..Len(trace) :
            IsRegistration(trace[j]) =>
               LET item == ItemOfRequest(j)
                   body == trace[j].json[1]
               IN  /\ j > 1
                   /\ IsUpload(trace[j - 1])
                   /\ trace[j - 1].Filename = item.file
                   /\ DOMAIN body = {"day", "month", "year", "children",
                                     "caption", "remoteFileName"}
                   /\ body.remoteFileName = trace[j - 1].Key
                   /\ \A k \in UploadsOf(trace) :
                         k /= j - 1 => body.remoteFileName /= trace[k].Key
                   /\ body.day = item.day
                   /\ body.month = item.month
                   /\ body.year = item.year
                   /\ Len(body.children) = Len(item.children)
                   /\ \A i \in 1..Len(item.children) :
                         body.children[i] = item.children[i].id
                   /\ body.caption = ""

\* a batch that uploads one file twice and another once has registered all
\* three
C14_Witness ==
    /\ Returned("upload_medias")
    /\ mediaItems = <<Item2, Item2, Item1>>
    /\ Count(trace, IsRegistration) = 3

-----------------------------------------------------------------------------
(* C15 *)

\* C15: for every entry, with or without blob references, delete(entry)
\* sends exactly one DELETE request, to the journal's entries endpoint with
\* the entry's id, and returns normally whatever the status of the
\* response.  Line 211 reads entry.blobs['p'] for its log line before the
\* request: an entry without that blob raises KeyError and is not deleted.
C15_DeleteSendsOneRequest ==
    (Finished("delete") /\ error /= "ConnectionError") =>
        /\ Len(trace) = 1
        /\ IsApi(trace[1], "DELETE")
        /\ trace[1].url = <<API_BASE_URL, "journals", "1572712", "entries",
                            entry[1].id>>
        /\ outcome = "returned"

-----------------------------------------------------------------------------
(* C16 *)

\* C16: a login call that ended with an error leaves the client
\* unauthenticated: no access token is stored and logged_in is false, so
\* that the next login call sends a new authenticate request.  Line 192
\* stores the token before line 193 reads the user record: when the user
\* record is missing or incomplete the call raises with the token stored.
C16_FailedLoginStoresNoToken ==
    (Finished("login") /\ outcome = "raised") =>
        /\ ~Held(access_token)
        /\ ~logged_in

-----------------------------------------------------------------------------
(* C17 *)

\* the batch ended when the registration POST of item k raised
RegistrationRaisedAt(k) ==
    /\ Finished("upload_medias")
    /\ error = "ConnectionError"
    /\ index = k - 1

\* C17: when the registration POST of item k of an upload_medias batch
\* raises, the error leaves upload_medias, nothing of an item after k is
\* sent, and the uploads and registrations of the items up to k stay as
\* they were sent; the loop goes on to a next item only after the
\* registration of the one before was answered.
C17_BatchStopsAtFailedRegistration ==
    op = "upload_medias" =>
        /\ (pc = "upload_medias" /\ index > 0) => response /= NoResponse
        /\ \A k \in 1..MaxItems :
              RegistrationRaisedAt(k) =>
                 /\ outcome = "raised"
                 /\ k <= Len(mediaItems)
                 /\ Len(trace) = 1 + 2 * k
                 /\ \A j \in 1..Len(trace) : BatchRequestInPlace(j)
                 /\ response = NoResponse

\* the registration of the second of three items raised: two uploads and
\* two registrations were sent, none for the third item
C17_Witness ==
    /\ RegistrationRaisedAt(2)
    /\ Len(mediaItems) = 3
    /\ Count(trace, IsUpload) = 2
    /\ Count(trace, IsRegistration) = 2
====
